---- MODULE Spec2Model ----
(***************************************************************************)
(* A model of tornado_http2/connection.py: the HTTP/2 Connection (preface  *)
(* handshake, frame read/dispatch loop, SETTINGS handling, stream table    *)
(* and id allocator) and the Stream (inbound HEADERS/DATA/RST_STREAM       *)
(* handling, outbound write_headers/write/finish with the reset-on-error   *)
(* wrapper and the Content-Length accounting).                             *)
(*                                                                         *)
(* The transport's output is the sequence `wire`; every suspension point   *)
(* of the coroutine (a transport read) separates two actions, everything   *)
(* between two reads is one action.                                        *)
(***************************************************************************)
EXTENDS Integers, Sequences, FiniteSets, TLC

\* ---------------------------------------------------------------- bounds
MaxStreamId == 2      \* stream ids of inbound frames range over 0..MaxStreamId
MaxStreams == 2       \* streams registered in the table
MaxWire == 3          \* items on the transport after which the loop writes no more
MaxFrames == 3        \* frames written by the outbound operations of the streams
MaxOps == 3           \* outbound operations called on one stream
MaxStarts == 2        \* calls of Connection.start
MaxCL == 1            \* largest declared Content-Length
MaxChunk == MaxCL + 1 \* longest chunk handed to write

\* ---------------------------------------------------------------- values
None == <<>>                       \* Python None, for an optional integer
Some(n) == <<n>>
IsSome(o) == Len(o) = 1
Val(o) == o[1]

Chunk(n) == [i \in 1..n |-> "a"]   \* a chunk of n bytes
Chunks == {Chunk(n) : n \in 0..MaxChunk}

NoFlags == {}
END_STREAM == "END_STREAM"
END_HEADERS == "END_HEADERS"
ACK == "ACK"

Frame(type, flags, stream_id, data) ==
    [type |-> type, flags |-> flags, stream_id |-> stream_id, data |-> data]

\* constants.CLIENT_PREFACE, as one item of the transport's output
CLIENT_PREFACE == Frame("PREFACE", NoFlags, 0, <<"PRI * HTTP/2.0">>)

\* Params.max_header_size, scaled down to the length of a request's block
max_header_size == 2

\* Header blocks as the header lists they decode to.
BlockGET == <<":method=GET", ":path=/">>
BlockHEAD == <<":method=HEAD", ":path=/">>
BlockSTATUS == <<":status=200">>
BlockBIG == [i \in 1..(max_header_size + 1) |->
               IF i = 1 THEN ":method=GET" ELSE IF i = 2 THEN ":path=/" ELSE "x=y"]
HeaderBlocks == {BlockGET, BlockSTATUS, BlockBIG}
Has(block, h) == \E i \in 1..Len(block) : block[i] = h

VARIABLES
    is_client,                  \* Connection.is_client
    closed,                     \* the transport has been closed
    wire,                       \* what has been written to the transport, in order
    streams,                    \* Connection.streams: id -> Stream
    next_stream_id,             \* Connection.next_stream_id
    initial_settings_written,   \* Connection._initial_settings_written is resolved
    isw_resolved,               \* history: times that signal has been resolved
    hpack_encoder,              \* Connection.hpack_encoder: header blocks encoded so far
    loops,                      \* one entry per call of start: where its _conn_loop
                                \* is ("idle", "preface", "reading"), or how the
                                \* future start returned ended ("returned", an error)
    created,                    \* history: ids returned by create_stream, in order
    registered,                 \* history: id -> Stream objects put into the table under it
    settings_seen,              \* history: non-ACK SETTINGS frames dispatched
    frames_read,                \* history: a frame has been returned by _read_frame
    last                        \* the most recent operation and what it did

vars == <<is_client, closed, wire, streams, next_stream_id,
          initial_settings_written, isw_resolved, hpack_encoder, loops,
          created, registered, settings_seen, frames_read, last>>

\* What an operation did: the delegate calls it made, the number of items it
\* appended to `wire`, the exception its body raised and the error that reached
\* its caller.
DidRaise(op, sid, arg, pre, calls, nw, raised, err) ==
    [op |-> op, sid |-> sid, arg |-> arg, pre |-> pre, calls |-> calls,
     nw |-> nw, raised |-> raised, err |-> err]

Did(op, sid, arg, pre, calls, nw, err) ==
    DidRaise(op, sid, arg, pre, calls, nw, err, err)

Written == SubSeq(wire, Len(wire) - last.nw + 1, Len(wire))

\* ---------------------------------------------------------------- Stream
\* A Stream after __init__; `resolved` (times finish_future has been resolved),
\* `end_stream_seen` (a frame with END_STREAM has been dispatched to the
\* stream) and `ops` (the outbound operations called on the stream, in order)
\* are history.
NewStream ==
    [expected_content_remaining |-> None,
     need_delegate_close |-> FALSE,
     finish_future |-> FALSE,
     resolved |-> 0,
     end_stream_seen |-> FALSE,
     ops |-> <<>>,
     request_start_line |-> "unset"]

\* set_result on a Future: a Future is resolved once; set_result on a resolved
\* Future raises and leaves it resolved.
SetResult(done) ==
    [done |-> TRUE, err |-> IF done THEN "AlreadyResolved" ELSE "none"]

Call(name, sid) == <<name, sid>>

Handled(st, calls, err) == [st |-> st, calls |-> calls, err |-> err]

\* Stream._handle_headers_frame without lines 214-216 (END_STREAM ignored)
HandleHeadersFrameNoEnd(st, f) ==
    IF END_HEADERS \notin f.flags
    THEN Handled(st, <<>>, "Exception:continuation")
    ELSE IF Len(f.data) > max_header_size
    THEN Handled(st, <<>>, "none")
    ELSE IF is_client /\ ~Has(f.data, ":status=200")
    THEN Handled(st, <<>>, "KeyError")
    ELSE IF ~is_client /\ ~(Has(f.data, ":method=GET") \/ Has(f.data, ":method=HEAD"))
    THEN Handled(st, <<>>, "KeyError")
    ELSE Handled([st EXCEPT !.request_start_line = f.data[1],
                            !.need_delegate_close = TRUE],
                 <<Call("headers_received", f.stream_id)>>, "none")

\* Stream._handle_headers_frame
HandleHeadersFrame(st, f) ==
    IF END_HEADERS \notin f.flags
    THEN Handled(st, <<>>, "Exception:continuation")
    ELSE IF Len(f.data) > max_header_size
    THEN Handled(st, <<>>, "none")
    ELSE IF is_client /\ ~Has(f.data, ":status=200")
    THEN Handled(st, <<>>, "KeyError")
    ELSE IF ~is_client /\ ~(Has(f.data, ":method=GET") \/ Has(f.data, ":method=HEAD"))
    THEN Handled(st, <<>>, "KeyError")
    ELSE
      LET st1 == [st EXCEPT !.request_start_line = f.data[1],
                            !.need_delegate_close = TRUE]
          c1 == <<Call("headers_received", f.stream_id)>>
      IN IF END_STREAM \in f.flags
         THEN LET r == SetResult(st1.finish_future)
              IN Handled([st1 EXCEPT !.finish_future = r.done,
                                     !.resolved = IF r.err = "none" THEN @ + 1 ELSE @],
                         Append(c1, Call("finish", f.stream_id)), r.err)
         ELSE Handled(st1, c1, "none")

\* Stream._handle_data_frame that resolves a fresh Future at each END_STREAM
HandleDataFrameFresh(st, f) ==
    LET c1 == <<Call("data_received", f.stream_id)>>
    IN IF END_STREAM \in f.flags
       THEN LET r == SetResult(FALSE)
            IN Handled([st EXCEPT !.need_delegate_close = FALSE,
                                  !.finish_future = r.done,
                                  !.resolved = IF r.err = "none" THEN @ + 1 ELSE @],
                       Append(c1, Call("finish", f.stream_id)), r.err)
       ELSE Handled(st, c1, "none")

\* Stream._handle_data_frame
HandleDataFrame(st, f) ==
    LET c1 == <<Call("data_received", f.stream_id)>>
    IN IF END_STREAM \in f.flags
       THEN LET r == SetResult(st.finish_future)
            IN Handled([st EXCEPT !.need_delegate_close = FALSE,
                                  !.finish_future = r.done,
                                  !.resolved = IF r.err = "none" THEN @ + 1 ELSE @],
                       Append(c1, Call("finish", f.stream_id)), r.err)
       ELSE Handled(st, c1, "none")

\* Stream._handle_rst_stream_frame
HandleRstStreamFrame(st, f) ==
    IF st.need_delegate_close
    THEN Handled(st, <<Call("on_connection_close", f.stream_id)>>, "none")
    ELSE Handled(st, <<>>, "none")

\* Stream.handle_frame
StreamHandleFrame(st, f) ==
    LET h == IF f.type = "HEADERS" THEN HandleHeadersFrame(st, f)
             ELSE IF f.type = "DATA" THEN HandleDataFrame(st, f)
             ELSE IF f.type = "RST_STREAM" THEN HandleRstStreamFrame(st, f)
             ELSE Handled(st, <<>>, "Exception:invalid frame type")
    IN Handled([h.st EXCEPT !.end_stream_seen = @ \/ END_STREAM \in f.flags],
               h.calls, h.err)


\* ---------------------------------------------------------------- Connection
Init ==
    /\ is_client \in BOOLEAN
    /\ closed = FALSE
    /\ wire = <<>>
    /\ streams = <<>>
    /\ next_stream_id = IF is_client THEN 1 ELSE 2
    /\ initial_settings_written = FALSE
    /\ isw_resolved = 0
    /\ hpack_encoder = 0
    /\ loops = [i \in 1..MaxStarts |-> "idle"]
    /\ created = <<>>
    /\ registered = <<>>
    /\ settings_seen = 0
    /\ frames_read = FALSE
    /\ last = Did("init", 0, None, None, <<>>, 0, "none")

\* `self.streams[id] = stream`, counted
Register(id) ==
    [s \in DOMAIN registered \cup {id} |->
       IF s \in DOMAIN registered
       THEN registered[s] + (IF s = id THEN 1 ELSE 0)
       ELSE 1]

\* Connection.create_stream that advances next_stream_id by one
create_stream_by_one ==
    /\ Cardinality(DOMAIN streams \cup {next_stream_id}) <= MaxStreams
    /\ streams' = [s \in DOMAIN streams \cup {next_stream_id} |->
                     IF s = next_stream_id THEN NewStream ELSE streams[s]]
    /\ next_stream_id' = next_stream_id + 1
    /\ created' = Append(created, next_stream_id)
    /\ registered' = Register(next_stream_id)
    /\ last' = Did("create_stream", next_stream_id, None, None, <<>>, 0, "none")
    /\ UNCHANGED <<is_client, closed, wire, initial_settings_written,
                   isw_resolved, hpack_encoder, loops, settings_seen,
                   frames_read>>

\* Connection.create_stream
create_stream ==
    /\ Cardinality(DOMAIN streams \cup {next_stream_id}) <= MaxStreams
    /\ streams' = [s \in DOMAIN streams \cup {next_stream_id} |->
                     IF s = next_stream_id THEN NewStream ELSE streams[s]]
    /\ next_stream_id' = next_stream_id + 2
    /\ created' = Append(created, next_stream_id)
    /\ registered' = Register(next_stream_id)
    /\ last' = Did("create_stream", next_stream_id, None, None, <<>>, 0, "none")
    /\ UNCHANGED <<is_client, closed, wire, initial_settings_written,
                   isw_resolved, hpack_encoder, loops, settings_seen,
                   frames_read>>

\* Connection._settings_frame
SettingsFrame ==
    Frame("SETTINGS", NoFlags, 0,
          IF is_client THEN <<"ENABLE_PUSH", "0">> ELSE <<>>)

\* Connection._settings_ack_frame
SettingsAckFrame == Frame("SETTINGS", {ACK}, 0, <<>>)

Pending(i) == loops[i] \in {"preface", "reading"}

\* Lines 68-69 of _conn_loop with the signal resolved and no SETTINGS written
SettingsNotWritten(i, pre_out, op, arg) ==
    LET r == SetResult(initial_settings_written)
    IN /\ wire' = wire \o pre_out
       /\ initial_settings_written' = r.done
       /\ isw_resolved' = IF r.err = "none" THEN isw_resolved + 1 ELSE isw_resolved
       /\ loops' = [loops EXCEPT ![i] = IF r.err = "none" THEN "reading" ELSE r.err]
       /\ closed' = (r.err # "none")
       /\ last' = Did(op, 0, arg, None, <<>>, Len(pre_out), r.err)

\* Lines 68-69 of _conn_loop and the entry into the read loop, or the path
\* through `except:` when set_result raises: loop i has passed its preface.
SettingsWritten(i, pre_out, op, arg) ==
    LET r == SetResult(initial_settings_written)
    IN /\ wire' = wire \o pre_out \o <<SettingsFrame>>
       /\ initial_settings_written' = r.done
       /\ isw_resolved' = IF r.err = "none" THEN isw_resolved + 1 ELSE isw_resolved
       /\ loops' = [loops EXCEPT ![i] = IF r.err = "none" THEN "reading" ELSE r.err]
       /\ closed' = (r.err # "none")
       /\ last' = Did(op, 0, arg, None, <<>>, Len(pre_out) + 1, r.err)

\* Connection.start, up to the first suspension of _conn_loop
Start(i) ==
    /\ loops[i] = "idle"
    /\ \A j \in 1..(i - 1) : loops[j] # "idle"
    /\ IF closed
       THEN \* the first transport operation raises StreamClosedError: return
            /\ loops' = [loops EXCEPT ![i] = "returned"]
            /\ last' = Did("start", 0, None, None, <<>>, 0, "none")
            /\ UNCHANGED <<closed, wire, initial_settings_written, isw_resolved>>
       ELSE IF is_client
       THEN SettingsWritten(i, <<CLIENT_PREFACE>>, "start", None)
       ELSE IF \E j \in 1..MaxStarts : Pending(j)
       THEN \* read_bytes while another read is pending: the transport asserts
            /\ loops' = [loops EXCEPT ![i] = "AssertionError"]
            /\ closed' = TRUE
            /\ last' = Did("start", 0, None, None, <<>>, 0, "AssertionError")
            /\ UNCHANGED <<wire, initial_settings_written, isw_resolved>>
       ELSE /\ loops' = [loops EXCEPT ![i] = "preface"]
            /\ last' = Did("start", 0, None, None, <<>>, 0, "none")
            /\ UNCHANGED <<closed, wire, initial_settings_written, isw_resolved>>
    /\ UNCHANGED <<is_client, streams, next_stream_id, hpack_encoder, created, registered,
                   settings_seen, frames_read>>

\* The server's preface read completes with `preface`.
Prefaces == {CLIENT_PREFACE.data, <<"GET / HTTP/1.1">>}

\* The preface read followed by lines 68-69 without the comparison of line 65
PrefaceReadUnchecked(i, preface) ==
    /\ loops[i] = "preface"
    /\ ~closed
    /\ SettingsWritten(i, <<>>, "preface", preface)
    /\ UNCHANGED <<is_client, streams, next_stream_id, hpack_encoder, created,
                   registered, settings_seen, frames_read>>

PrefaceRead(i, preface) ==
    /\ loops[i] = "preface"
    /\ ~closed
    /\ IF preface # CLIENT_PREFACE.data
       THEN /\ loops' = [loops EXCEPT ![i] = "Exception:preface"]
            /\ closed' = TRUE
            /\ last' = Did("preface", 0, preface, None, <<>>, 0, "Exception:preface")
            /\ UNCHANGED <<wire, initial_settings_written, isw_resolved>>
       ELSE SettingsWritten(i, <<>>, "preface", preface)
    /\ UNCHANGED <<is_client, streams, next_stream_id, hpack_encoder, created, registered,
                   settings_seen, frames_read>>

\* The peer closes the transport (or it fails).
TransportClosed ==
    /\ ~closed
    /\ closed' = TRUE
    /\ last' = Did("closed", 0, None, None, <<>>, 0, "none")
    /\ UNCHANGED <<is_client, wire, streams, next_stream_id,
                   initial_settings_written, isw_resolved, hpack_encoder, loops,
                   created, registered, settings_seen, frames_read>>

\* _conn_loop without line 87: StreamClosedError takes the path of `except:`
ReadClosedRaises(i) ==
    /\ Pending(i)
    /\ closed
    /\ loops' = [loops EXCEPT ![i] = "StreamClosedError"]
    /\ last' = Did("read_closed", 0, None, None, <<>>, 0, "StreamClosedError")
    /\ UNCHANGED <<is_client, closed, wire, streams, next_stream_id,
                   initial_settings_written, isw_resolved, hpack_encoder,
                   created, registered, settings_seen, frames_read>>

\* A pending read of loop i fails with StreamClosedError: _conn_loop returns.
ReadClosed(i) ==
    /\ Pending(i)
    /\ closed
    /\ loops' = [loops EXCEPT ![i] = "returned"]
    /\ last' = Did("read_closed", 0, None, None, <<>>, 0, "none")
    /\ UNCHANGED <<is_client, closed, wire, streams, next_stream_id,
                   initial_settings_written, isw_resolved, hpack_encoder,
                   created, registered, settings_seen, frames_read>>

\* Connection._handle_settings_frame that acknowledges every SETTINGS frame
HandleSettingsFrameAlways(f) == <<SettingsAckFrame>>

\* Connection._handle_settings_frame: the frames it writes
HandleSettingsFrame(f) ==
    IF ACK \in f.flags THEN <<>> ELSE <<SettingsAckFrame>>

Dispatched(strs, out, calls, err) ==
    [streams |-> strs, out |-> out, calls |-> calls, err |-> err]

\* The ids in the table strs that are not in the table before the step
NewIds(strs) == DOMAIN strs \ DOMAIN streams

\* Connection.handle_frame that ignores the types it does not handle
ConnHandleFrameLenient(f) ==
    IF f.type = "SETTINGS"
    THEN Dispatched(streams, HandleSettingsFrame(f), <<>>, "none")
    ELSE Dispatched(streams, <<>>, <<>>, "none")

\* Connection.handle_frame: a frame with stream id 0
ConnHandleFrame(f) ==
    IF f.type = "SETTINGS"
    THEN Dispatched(streams, HandleSettingsFrame(f), <<>>, "none")
    ELSE IF f.type = "WINDOW_UPDATE"
    THEN Dispatched(streams, <<>>, <<>>, "none")
    ELSE Dispatched(streams, <<>>, <<>>, "Exception:invalid frame type for stream 0")

Put(strs, sid, st) ==
    [s \in DOMAIN strs \cup {sid} |-> IF s = sid THEN st ELSE strs[s]]

\* The dispatch without the test of line 77
DispatchNoDuplicateTest(f) ==
    IF f.stream_id = 0
    THEN ConnHandleFrame(f)
    ELSE IF ~is_client /\ f.type = "HEADERS"
    THEN LET h == StreamHandleFrame(NewStream, f)
         IN Dispatched(Put(streams, f.stream_id, h.st), <<>>,
                       <<Call("start_request", f.stream_id)>> \o h.calls, h.err)
    ELSE IF f.stream_id \notin DOMAIN streams
    THEN Dispatched(streams, <<>>, <<>>, "KeyError")
    ELSE LET h == StreamHandleFrame(streams[f.stream_id], f)
         IN Dispatched(Put(streams, f.stream_id, h.st), <<>>, h.calls, h.err)

\* The body of the `while True` loop of _conn_loop, after the read
Dispatch(f) ==
    IF f.stream_id = 0
    THEN ConnHandleFrame(f)
    ELSE IF ~is_client /\ f.type = "HEADERS"
    THEN IF f.stream_id \in DOMAIN streams
         THEN Dispatched(streams, <<>>, <<>>, "Exception:already have stream")
         ELSE LET h == StreamHandleFrame(NewStream, f)
              IN Dispatched(Put(streams, f.stream_id, h.st), <<>>,
                            <<Call("start_request", f.stream_id)>> \o h.calls, h.err)
    ELSE IF f.stream_id \notin DOMAIN streams
    THEN Dispatched(streams, <<>>, <<>>, "KeyError")
    ELSE LET h == StreamHandleFrame(streams[f.stream_id], f)
         IN Dispatched(Put(streams, f.stream_id, h.st), <<>>, h.calls, h.err)

InFrames ==
    {Frame("HEADERS", fl, s, b) :
        fl \in {{END_HEADERS}, {END_HEADERS, END_STREAM}},
        s \in 0..MaxStreamId, b \in HeaderBlocks}
    \cup {Frame("HEADERS", NoFlags, s, BlockGET) : s \in 0..MaxStreamId}
    \cup {Frame("DATA", fl, s, Chunk(1)) :
        fl \in {NoFlags, {END_STREAM}}, s \in 0..MaxStreamId}
    \cup {Frame("SETTINGS", fl, s, <<>>) :
        fl \in {NoFlags, {ACK}}, s \in 0..MaxStreamId}
    \cup {Frame(t, NoFlags, s, <<>>) :
        t \in {"RST_STREAM", "WINDOW_UPDATE", "PING"}, s \in 0..MaxStreamId}

\* One turn of the `while True` loop of _conn_loop: _read_frame returns f and
\* f is dispatched; an exception closes the transport and ends the loop.
RecvFrame(i, f) ==
    LET d == Dispatch(f)
    IN /\ loops[i] = "reading"
       /\ ~closed
       /\ d.out # <<>> => Len(wire) + Len(d.out) <= MaxWire
       /\ Cardinality(DOMAIN d.streams) <= MaxStreams
       /\ frames_read' = TRUE
       /\ streams' = d.streams
       /\ wire' = wire \o d.out
       /\ settings_seen' = settings_seen +
             (IF f.stream_id = 0 /\ f.type = "SETTINGS" /\ ACK \notin f.flags
              THEN 1 ELSE 0)
       /\ closed' = (d.err # "none")
       /\ loops' = [loops EXCEPT ![i] = IF d.err = "none" THEN "reading" ELSE d.err]
       /\ last' = Did("recv", f.stream_id, f,
                      [had |-> f.stream_id \in DOMAIN streams,
                       need |-> IF f.stream_id \in DOMAIN streams
                                THEN streams[f.stream_id].need_delegate_close
                                ELSE FALSE,
                       done |-> IF f.stream_id \in DOMAIN streams
                                THEN streams[f.stream_id].finish_future
                                ELSE FALSE,
                       ended |-> IF f.stream_id \in DOMAIN streams
                                 THEN streams[f.stream_id].end_stream_seen
                                 ELSE FALSE],
                      d.calls, Len(d.out), d.err)
       /\ registered' = IF NewIds(d.streams) = {} THEN registered
                        ELSE Register(f.stream_id)
       /\ UNCHANGED <<is_client, next_stream_id, initial_settings_written,
                      isw_resolved, hpack_encoder, created>>

\* ---------------------------------------------------------------- Stream, outbound
RstStreamFrame(sid) == Frame("RST_STREAM", NoFlags, sid, <<"0", "0", "0", "0">>)

Wrote(st, out, enc, err) == [st |-> st, out |-> out, enc |-> enc, err |-> err]

\* _reset_on_error that raises the exception again without Stream.reset
NoResetOnError(r, sid) == r

\* _reset_on_error: Stream.reset, then the exception is raised again
ResetOnError(r, sid) ==
    IF r.err # "none"
    THEN Wrote(r.st, Append(r.out, RstStreamFrame(sid)), r.enc, r.err)
    ELSE r

\* Stream.write without the Content-Length check
WriteBodyUnchecked(st, sid, chunk) ==
    IF chunk # <<>>
    THEN Wrote(IF IsSome(st.expected_content_remaining)
               THEN [st EXCEPT !.expected_content_remaining = Some(Val(@) - Len(chunk))]
               ELSE st,
               <<Frame("DATA", NoFlags, sid, chunk)>>, hpack_encoder, "none")
    ELSE Wrote(st, <<>>, hpack_encoder, "none")

\* The body of Stream.write
WriteBody(st, sid, chunk) ==
    IF chunk # <<>>
    THEN IF IsSome(st.expected_content_remaining)
         THEN LET st1 == [st EXCEPT !.expected_content_remaining =
                                       Some(Val(@) - Len(chunk))]
              IN IF Val(st1.expected_content_remaining) < 0
                 THEN Wrote(st1, <<>>, hpack_encoder, "HTTPOutputError:more")
                 ELSE Wrote(st1, <<Frame("DATA", NoFlags, sid, chunk)>>,
                            hpack_encoder, "none")
         ELSE Wrote(st, <<Frame("DATA", NoFlags, sid, chunk)>>, hpack_encoder, "none")
    ELSE Wrote(st, <<>>, hpack_encoder, "none")

\* Stream.write
Write(st, sid, chunk) == ResetOnError(WriteBody(st, sid, chunk), sid)

\* int(headers['Content-Length'])
Numeric(v) == \E n \in 0..MaxCL : ToString(n) = v

\* int() that yields 0 for every numeric string
IntOfZero(v) == 0

IntOf(v) == CHOOSE n \in 0..MaxCL : ToString(n) = v

\* HpackEncoder.encode: the block depends on the encoder's state (the number of
\* blocks it has encoded before) and on the header list
HpackEncode(enc, header_list) == <<ToString(enc)>> \o header_list

\* The body of Stream.write_headers with an encoder of the stream's own (one
\* that has encoded the blocks of this stream's earlier calls only)
WriteHeadersBodyOwnEncoder(st, sid, h, chunk) ==
    IF ~is_client /\ st.request_start_line = "unset"
    THEN Wrote(st, <<>>, hpack_encoder, "AttributeError")
    ELSE IF ~(~is_client /\ (st.request_start_line = ":method=HEAD" \/ h.code = 304))
            /\ IsSome(h.content_length) /\ ~Numeric(Val(h.content_length))
    THEN Wrote(st, <<>>, hpack_encoder, "ValueError")
    ELSE
      LET st1 == IF ~is_client /\ (st.request_start_line = ":method=HEAD" \/ h.code = 304)
                 THEN [st EXCEPT !.expected_content_remaining = Some(0)]
                 ELSE IF IsSome(h.content_length)
                 THEN [st EXCEPT !.expected_content_remaining =
                                    Some(IntOf(Val(h.content_length)))]
                 ELSE st
          header_list ==
              (IF is_client THEN <<":method", ":scheme", ":path">>
               ELSE <<":status=" \o ToString(h.code)>>)
              \o (IF IsSome(h.content_length)
                  THEN <<"content-length=" \o Val(h.content_length)>> ELSE <<>>)
          frame == Frame("HEADERS", {END_HEADERS}, sid,
                         HpackEncode(Len(st.ops), header_list))
          w == Write(st1, sid, chunk)
      IN Wrote(w.st, <<frame>> \o w.out, hpack_encoder + 1, w.err)

\* The body of Stream.write_headers; h is the call's start line and headers:
\* h.code the response code (server), h.content_length the header's value or None
WriteHeadersBody(st, sid, h, chunk) ==
    IF ~is_client /\ st.request_start_line = "unset"
    THEN Wrote(st, <<>>, hpack_encoder, "AttributeError")
    ELSE IF ~(~is_client /\ (st.request_start_line = ":method=HEAD" \/ h.code = 304))
            /\ IsSome(h.content_length) /\ ~Numeric(Val(h.content_length))
    THEN Wrote(st, <<>>, hpack_encoder, "ValueError")
    ELSE
      LET st1 == IF ~is_client /\ (st.request_start_line = ":method=HEAD" \/ h.code = 304)
                 THEN [st EXCEPT !.expected_content_remaining = Some(0)]
                 ELSE IF IsSome(h.content_length)
                 THEN [st EXCEPT !.expected_content_remaining =
                                    Some(IntOf(Val(h.content_length)))]
                 ELSE st
          header_list ==
              (IF is_client THEN <<":method", ":scheme", ":path">>
               ELSE <<":status=" \o ToString(h.code)>>)
              \o (IF IsSome(h.content_length)
                  THEN <<"content-length=" \o Val(h.content_length)>> ELSE <<>>)
          frame == Frame("HEADERS", {END_HEADERS}, sid,
                         HpackEncode(hpack_encoder, header_list))
          w == Write(st1, sid, chunk)
      IN Wrote(w.st, <<frame>> \o w.out, hpack_encoder + 1, w.err)

\* Stream.write_headers
WriteHeaders(st, sid, h, chunk) == ResetOnError(WriteHeadersBody(st, sid, h, chunk), sid)

\* Stream.finish without the Content-Length check
FinishBodyUnchecked(st, sid) ==
    Wrote(st, <<Frame("DATA", {END_STREAM}, sid, <<>>)>>, hpack_encoder, "none")

\* The body of Stream.finish
FinishBody(st, sid) ==
    IF IsSome(st.expected_content_remaining) /\ Val(st.expected_content_remaining) # 0
    THEN Wrote(st, <<>>, hpack_encoder, "HTTPOutputError:less")
    ELSE Wrote(st, <<Frame("DATA", {END_STREAM}, sid, <<>>)>>, hpack_encoder, "none")

\* Stream.finish
Finish(st, sid) == ResetOnError(FinishBody(st, sid), sid)

\* The frames of w written for streams (not connection-level items)
StreamFrames(w) == Cardinality({k \in 1..Len(w) : w[k].stream_id # 0})

\* An outbound call as the stream's history keeps it: the operation and the
\* length of its chunk
Op(op, arg) == [op |-> op, n |-> IF op = "finish" THEN 0 ELSE arg.n]

\* An outbound operation of the stream registered under sid: its body's
\* outcome is `body`, the wrapped call's outcome is w. The application writes
\* to a stream only while the transport is open.
Outbound(op, sid, arg, body, w) ==
    /\ ~closed
    /\ Len(streams[sid].ops) < MaxOps
    /\ StreamFrames(wire) + Len(w.out) <= MaxFrames
    /\ streams' = [streams EXCEPT ![sid] =
                      [w.st EXCEPT !.ops = Append(@, Op(op, arg))]]
    /\ wire' = wire \o w.out
    /\ hpack_encoder' = w.enc
    /\ last' = DidRaise(op, sid, arg, streams[sid].expected_content_remaining,
                        <<>>, Len(w.out), body.err, w.err)
    /\ UNCHANGED <<is_client, closed, next_stream_id, initial_settings_written,
                   isw_resolved, loops, created, registered, settings_seen, frames_read>>

\* The start lines and headers of write_headers: a response code (a server's
\* ResponseStartLine; 0 for a client's RequestStartLine, which has none) and
\* the Content-Length header's value, if any
HeaderSets ==
    [code : IF is_client THEN {0} ELSE {200, 304},
     content_length : {None, Some("x")} \cup {Some(ToString(n)) : n \in 0..MaxCL}]

write_headers(sid, h, chunk) ==
    Outbound("write_headers", sid,
             [code |-> h.code, cl |-> h.content_length, n |-> Len(chunk)],
             WriteHeadersBody(streams[sid], sid, h, chunk),
             WriteHeaders(streams[sid], sid, h, chunk))

write(sid, chunk) ==
    Outbound("write", sid, [n |-> Len(chunk)],
             WriteBody(streams[sid], sid, chunk), Write(streams[sid], sid, chunk))

finish(sid) ==
    Outbound("finish", sid, None,
             FinishBody(streams[sid], sid), Finish(streams[sid], sid))

ConnActions ==
    \/ create_stream
    \/ \E i \in 1..MaxStarts : Start(i)
    \/ \E i \in 1..MaxStarts, p \in Prefaces : PrefaceRead(i, p)
    \/ TransportClosed
    \/ \E i \in 1..MaxStarts : ReadClosed(i)

StreamActions ==
    \/ \E sid \in DOMAIN streams, h \in HeaderSets, chunk \in Chunks :
          write_headers(sid, h, chunk)
    \/ \E sid \in DOMAIN streams, chunk \in Chunks : write(sid, chunk)
    \/ \E sid \in DOMAIN streams : finish(sid)

\* The connection with every operation enabled.
Next ==
    \/ ConnActions
    \/ \E i \in 1..MaxStarts, f \in InFrames : RecvFrame(i, f)
    \/ StreamActions

Spec == Init /\ [][Next]_vars

\* The connection under inbound traffic, no stream writing: handshake, dispatch,
\* stream table, inbound stream handling.
NextLoop ==
    \/ ConnActions
    \/ \E i \in 1..MaxStarts, f \in InFrames : RecvFrame(i, f)

SpecLoop == Init /\ [][NextLoop]_vars

\* One stream writing: start is called once and before any stream writes, the
\* table holds a single stream (created by a client, opened by the peer's
\* HEADERS frame on stream 1 in a server), and the peer does not close the
\* transport.
HeadersFrames ==
    {Frame("HEADERS", {END_HEADERS}, 1, b) : b \in HeaderBlocks \cup {BlockHEAD}}

OneStream == Cardinality(DOMAIN streams) <= 1
Started == loops[1] # "idle"

NextStream ==
    \/ is_client /\ create_stream /\ OneStream'
    \/ Start(1)
    \/ \E p \in Prefaces : PrefaceRead(1, p)
    \/ \E f \in HeadersFrames :
          ~is_client /\ DOMAIN streams = {} /\ RecvFrame(1, f) /\ OneStream'
    \/ \E sid \in DOMAIN streams, h \in HeaderSets, chunk \in Chunks :
          Started /\ write_headers(sid, h, chunk)
    \/ \E sid \in DOMAIN streams, chunk \in Chunks : Started /\ write(sid, chunk)
    \/ \E sid \in DOMAIN streams : Started /\ finish(sid)

SpecStream == Init /\ [][NextStream]_vars

\* Several streams writing their headers while the loop reads: a client
\* creates its streams, a server's are opened by the peer's requests, SETTINGS
\* frames arrive and are acknowledged, and write_headers is called without
\* Content-Length and without a first chunk.
Requests == {Frame("HEADERS", {END_HEADERS}, s, BlockGET) : s \in 1..MaxStreamId}

NextHeaders ==
    \/ is_client /\ create_stream
    \/ Start(1)
    \/ PrefaceRead(1, CLIENT_PREFACE.data)
    \/ \E f \in Requests : ~is_client /\ RecvFrame(1, f)
    \/ RecvFrame(1, Frame("SETTINGS", NoFlags, 0, <<>>))
    \/ \E sid \in DOMAIN streams, h \in HeaderSets :
          /\ Started
          /\ h.content_length = None
          /\ write_headers(sid, h, <<>>)

SpecHeaders == Init /\ [][NextHeaders]_vars

\* ---------------------------------------------------------------- observations
\* The transport's output before the most recent operation
Before == SubSeq(wire, 1, Len(wire) - last.nw)

\* The positions of w holding a frame of the type for the stream
Positions(w, type, sid) ==
    {k \in 1..Len(w) : w[k].type = type /\ w[k].stream_id = sid}

RECURSIVE SumLen(_, _)
SumLen(w, ks) ==
    IF ks = {} THEN 0
    ELSE LET k == CHOOSE x \in ks : TRUE
         IN Len(w[k].data) + SumLen(w, ks \ {k})

\* One Stream object has been registered under sid, one HEADERS frame has been
\* written for it, and that frame declares Content-Length n
DeclaredOnce(w, sid, n) ==
    /\ sid \in DOMAIN registered
    /\ registered[sid] = 1
    /\ Cardinality(Positions(w, "HEADERS", sid)) = 1
    /\ \A k \in Positions(w, "HEADERS", sid) :
          Has(w[k].data, "content-length=" \o ToString(n))

\* The bytes of the DATA frames of w written for sid after its HEADERS frame
DataAfterHeaders(w, sid) ==
    SumLen(w, {k \in Positions(w, "DATA", sid) :
                 \A j \in Positions(w, "HEADERS", sid) : j < k})

\* ---------------------------------------------------------------- claims

\* C1: on a stream whose write_headers declared Content-Length n, a write whose
\* chunk would bring the bytes written above n fails with the overrun error and
\* writes no DATA frame, and the DATA frames written for the stream after the
\* HEADERS frame never carry more than n bytes in total.
C1_ContentLengthNeverExceeded ==
    \A sid \in DOMAIN streams, n \in 0..MaxCL :
        DeclaredOnce(wire, sid, n) =>
            /\ DataAfterHeaders(wire, sid) <= n
            /\ (/\ last.op = "write"
                /\ last.sid = sid
                /\ DeclaredOnce(Before, sid, n)
                /\ DataAfterHeaders(Before, sid) + last.arg.n > n)
               => /\ last.err = "HTTPOutputError:more"
                  /\ Positions(Written, "DATA", sid) = {}

\* C1 witness: after Content-Length 1 and one byte written, a further write of
\* one byte has been refused.
C1_Witness ==
    \E sid \in DOMAIN streams :
        /\ DeclaredOnce(Before, sid, 1)
        /\ DataAfterHeaders(Before, sid) = 1
        /\ last.op = "write" /\ last.sid = sid /\ last.arg.n = 1
        /\ last.err = "HTTPOutputError:more"

\* C2: finish on a stream whose counter is tracked and nonzero fails with the
\* shortfall error and writes no DATA frame with END_STREAM; finish on a stream
\* whose counter is untracked or zero succeeds and writes exactly one DATA frame,
\* with an empty payload and END_STREAM set.
C2_FinishChecksRemaining ==
    last.op = "finish" =>
        IF IsSome(last.pre) /\ Val(last.pre) # 0
        THEN /\ last.err = "HTTPOutputError:less"
             /\ \A k \in 1..Len(Written) :
                   ~(Written[k].type = "DATA" /\ END_STREAM \in Written[k].flags)
        ELSE /\ last.err = "none"
             /\ Written = <<Frame("DATA", {END_STREAM}, last.sid, <<>>)>>

\* C2 witness: finish has succeeded after writes of exactly the declared
\* length (Content-Length 1, one byte written).
C2_Witness ==
    /\ last.op = "finish"
    /\ last.err = "none"
    /\ last.pre = Some(0)
    /\ DeclaredOnce(Before, last.sid, 1)
    /\ DataAfterHeaders(Before, last.sid) = 1

\* C3: whenever the body of write_headers, write or finish raises, the last
\* frame the call writes is an RST_STREAM frame with the stream's id and a
\* payload of four zero bytes, and the caller receives the exception raised.
C3_ResetOnError ==
    (last.op \in {"write_headers", "write", "finish"} /\ last.raised # "none") =>
        /\ last.nw >= 1
        /\ Written[Len(Written)] = Frame("RST_STREAM", NoFlags, last.sid,
                                          <<"0", "0", "0", "0">>)
        /\ last.err = last.raised

\* C3 witness: a write_headers whose first chunk overran the declared length
\* has failed.
C3_Witness ==
    /\ last.op = "write_headers"
    /\ last.raised = "HTTPOutputError:more"
    /\ last.nw >= 1

\* C4 (as claimed): an RST_STREAM frame dispatched to a stream that has received
\* no frame with END_STREAM makes exactly one delegate call, on_connection_close;
\* dispatched to a stream that has received a frame with END_STREAM (on HEADERS
\* or on DATA) it makes no delegate call.
C4_RstNotifiesUnlessEnded ==
    (last.op = "recv" /\ last.arg.type = "RST_STREAM" /\ last.sid # 0 /\ last.pre.had) =>
        IF last.pre.ended
        THEN last.calls = <<>>
        ELSE last.calls = <<Call("on_connection_close", last.sid)>>

\* C5: in a server, a HEADERS frame for a non-zero stream id that is in the
\* stream table ends the loop with an error that reaches the caller of start,
\* closes the transport, leaves the table as it was and calls neither
\* start_request nor any delegate callback.
C5_DuplicateHeadersFatal ==
    [][(/\ last'.op = "recv"
        /\ ~is_client
        /\ last'.arg.type = "HEADERS"
        /\ last'.arg.stream_id # 0
        /\ last'.arg.stream_id \in DOMAIN streams)
       => (/\ last'.err = "Exception:already have stream"
           /\ closed'
           /\ \E i \in 1..MaxStarts :
                 loops[i] = "reading" /\ loops'[i] = "Exception:already have stream"
           /\ \A i \in 1..MaxStarts : loops'[i] # "reading"
           /\ streams' = streams
           /\ registered' = registered
           /\ last'.calls = <<>>)]_vars

\* C5 witness: a server has received HEADERS for a stream id it holds.
C5_Witness ==
    /\ ~is_client
    /\ last.op = "recv" /\ last.arg.type = "HEADERS" /\ last.sid # 0
    /\ last.pre.had
    /\ last.err = "Exception:already have stream"

\* C6: the Nth id returned by create_stream is initial_id + 2*(N-1), initial_id
\* being 1 for a client and 2 for a server; so the ids are odd for a client,
\* even for a server, and strictly increasing.
C6_StreamIdAllocation ==
    /\ \A n \in 1..Len(created) :
          /\ created[n] = (IF is_client THEN 1 ELSE 2) + 2 * (n - 1)
          /\ created[n] % 2 = (IF is_client THEN 1 ELSE 0)
    /\ \A m, n \in 1..Len(created) : m < n => created[m] < created[n]

\* C6 witness: a server has created its second stream after frames were read.
C6_Witness ==
    /\ ~is_client
    /\ Len(created) = 2
    /\ frames_read
    /\ last.op = "create_stream"

\* C7: a SETTINGS frame on stream 0 without ACK is answered with exactly one
\* SETTINGS frame with ACK, empty payload and stream id 0; one with ACK causes
\* no write; the SETTINGS-ACK frames written are as many as the non-ACK SETTINGS
\* frames dispatched.
C7_SettingsAcknowledged ==
    /\ (last.op = "recv" /\ last.sid = 0 /\ last.arg.type = "SETTINGS") =>
          IF ACK \in last.arg.flags
          THEN last.nw = 0
          ELSE Written = <<Frame("SETTINGS", {ACK}, 0, <<>>)>>
    /\ Cardinality({k \in 1..Len(wire) :
                      wire[k].type = "SETTINGS" /\ ACK \in wire[k].flags})
          = settings_seen

\* C7 witness: a SETTINGS frame with ACK has been dispatched after one without.
C7_Witness ==
    /\ settings_seen = 1
    /\ last.op = "recv" /\ last.sid = 0 /\ last.arg.type = "SETTINGS"
    /\ ACK \in last.arg.flags

\* The connection-level items of the transport's output
ConnItems == {k \in 1..Len(wire) : wire[k].stream_id = 0}
IsInitialSettings(x) == x.type = "SETTINGS" /\ ACK \notin x.flags /\ x.stream_id = 0

\* C8: a client's first connection-level item is the preface and the initial
\* SETTINGS frame follows it at once; a server writes its initial SETTINGS
\* frame, with an empty payload, only in the step that read the expected
\* preface; the signal is resolved only once an initial SETTINGS frame has been
\* written, and no frame is read before the signal is resolved.
C8_HandshakeOrder ==
    /\ is_client =>
          \A k \in ConnItems :
             /\ (\A j \in ConnItems : k <= j) => wire[k] = CLIENT_PREFACE
             /\ wire[k] = CLIENT_PREFACE =>
                   k < Len(wire) /\ IsInitialSettings(wire[k + 1])
             /\ IsInitialSettings(wire[k]) => k > 1 /\ wire[k - 1] = CLIENT_PREFACE
    /\ ~is_client =>
          /\ \A k \in 1..Len(wire) : wire[k] # CLIENT_PREFACE
          /\ \A k \in ConnItems : IsInitialSettings(wire[k]) => wire[k].data = <<>>
          /\ (\E k \in 1..Len(Written) : IsInitialSettings(Written[k])) =>
                last.op = "preface" /\ last.arg = CLIENT_PREFACE.data
    /\ initial_settings_written => \E k \in ConnItems : IsInitialSettings(wire[k])
    /\ frames_read => initial_settings_written

\* C8 witness: a server has dispatched a frame after its handshake.
C8_Witness ==
    /\ ~is_client
    /\ frames_read
    /\ initial_settings_written
    /\ \E k \in ConnItems : IsInitialSettings(wire[k])

\* C9: once a server's preface read has returned other bytes than the expected
\* preface, the failure is the outcome of start, the transport is closed, no
\* SETTINGS frame is written, the signal is not resolved, no frame has been
\* read and no loop is reading.
C9_BadPrefaceFatal ==
    /\ (last.op = "preface" /\ last.arg # CLIENT_PREFACE.data) =>
          \E i \in 1..MaxStarts : loops[i] = "Exception:preface"
    /\ (\E i \in 1..MaxStarts : loops[i] = "Exception:preface") =>
          /\ closed
          /\ \A k \in 1..Len(wire) : wire[k].type # "SETTINGS"
          /\ ~initial_settings_written
          /\ ~frames_read
          /\ \A i \in 1..MaxStarts : loops[i] # "reading"

\* C9 witness: after a bad preface, start has been called again.
C9_Witness ==
    /\ \E i \in 1..MaxStarts : loops[i] = "Exception:preface"
    /\ last.op = "start"

\* C10: the initial-settings signal and every stream's completion signal have
\* been resolved at most once, and a signal that has been resolved is resolved.
C10_SignalsOneShot ==
    /\ isw_resolved <= 1
    /\ isw_resolved = 1 => initial_settings_written
    /\ \A s \in DOMAIN streams :
          /\ streams[s].resolved <= 1
          /\ streams[s].resolved = 1 => streams[s].finish_future

\* C10 witness: a second frame with END_STREAM has been dispatched to a stream
\* whose completion signal was resolved.
C10_Witness ==
    /\ last.op = "recv"
    /\ last.pre.had /\ last.pre.done
    /\ END_STREAM \in last.arg.flags
    /\ last.err = "AlreadyResolved"
    /\ isw_resolved = 1

\* The frames written for the stream sid, in order
StreamWire(sid) == SelectSeq(wire, LAMBDA x : x.stream_id = sid)

\* The first k calls of the scenario are the calls made on the stream:
\* write_headers without a first chunk, write of n bytes, finish
ScenarioOps(ops, n, k) ==
    /\ Len(ops) = k
    /\ ops[1] = [op |-> "write_headers", n |-> 0]
    /\ k >= 2 => ops[2] = [op |-> "write", n |-> n]
    /\ k >= 3 => ops[3] = [op |-> "finish", n |-> 0]

IsHeadersFor(x, sid, n) ==
    /\ x.type = "HEADERS"
    /\ x.flags = {END_HEADERS}
    /\ x.stream_id = sid
    /\ Has(x.data, "content-length=" \o ToString(n))

\* The write_headers of the scenario declared Content-Length n: its argument
\* while it is the most recent call, the HEADERS frame it wrote afterwards
Declares(sid, n, k) ==
    IF k = 1
    THEN /\ last.op = "write_headers" /\ last.sid = sid
         /\ last.arg.cl = Some(ToString(n))
    ELSE /\ Len(StreamWire(sid)) >= 1
         /\ IsHeadersFor(StreamWire(sid)[1], sid, n)

\* The response code of the scenario's write_headers is 304
Code304(sid, k) ==
    IF k = 1 THEN last.arg.code = 304
    ELSE Has(StreamWire(sid)[1].data, ":status=304")

\* The frames of the stream after the first k calls of the scenario
ScenarioFrames(sw, sid, n, k) ==
    /\ Len(sw) = k
    /\ IsHeadersFor(sw[1], sid, n)
    /\ k >= 2 => sw[2] = Frame("DATA", NoFlags, sid, Chunk(n))
    /\ k >= 3 => sw[3] = Frame("DATA", {END_STREAM}, sid, <<>>)

\* The stream is a client's, or a server's whose request has been received
\* with a method other than HEAD and whose response code is not 304
HasBody(sid, k) ==
    \/ is_client
    \/ /\ streams[sid].request_start_line = ":method=GET"
       /\ ~Code304(sid, k)

\* C11 (as claimed): on a stream on which write_headers declares Content-Length
\* n without a first chunk, then write is called with n > 0 bytes, then finish,
\* the frames written for the stream after each of the calls are the HEADERS
\* frame (END_HEADERS only), then the DATA frame with the chunk and no flags,
\* then the empty DATA frame with END_STREAM, and no RST_STREAM frame.
C11_ScenarioC_AsClaimed ==
    \A sid \in DOMAIN streams, n \in 1..MaxCL, k \in 1..3 :
        (ScenarioOps(streams[sid].ops, n, k) /\ Declares(sid, n, k))
        => ScenarioFrames(StreamWire(sid), sid, n, k)

\* C11 (amended): the same, for a client's stream and for a server's stream
\* whose request was received with a method other than HEAD and whose response
\* code is not 304.
C11_ScenarioC ==
    \A sid \in DOMAIN streams, n \in 1..MaxCL, k \in 1..3 :
        (/\ ScenarioOps(streams[sid].ops, n, k)
         /\ Declares(sid, n, k)
         /\ HasBody(sid, k))
        => ScenarioFrames(StreamWire(sid), sid, n, k)

\* C11 witness: a server has answered a GET request with Content-Length 1, one
\* byte and finish.
C11_Witness ==
    \E sid \in DOMAIN streams :
        /\ ~is_client
        /\ streams[sid].request_start_line = ":method=GET"
        /\ ScenarioOps(streams[sid].ops, 1, 3)
        /\ ScenarioFrames(StreamWire(sid), sid, 1, 3)
        /\ last.op = "finish" /\ last.err = "none"

C13_UnknownTypeStreamOnly ==
    (/\ last.op = "recv"
     /\ last.sid # 0
     /\ last.pre.had
     /\ last.arg.type \notin {"HEADERS", "DATA", "RST_STREAM"})
    => /\ ~closed
       /\ \E i \in 1..MaxStarts : loops[i] = "reading"

\* The HEADERS frames handed to the transport, in order
HeadersWritten == SelectSeq(wire, LAMBDA x : x.type = "HEADERS")

\* C14: the k-th HEADERS frame handed to the transport carries the k-th block
\* that passed through the connection's encoder, whichever streams called
\* write_headers and whatever the loop dispatched or wrote in between; the
\* encoder has encoded as many blocks as HEADERS frames were written.
C14_HeadersInEncoderOrder ==
    /\ hpack_encoder = Len(HeadersWritten)
    /\ \A k \in 1..Len(HeadersWritten) :
          HeadersWritten[k].data[1] = ToString(k - 1)

\* C14 witness: two streams have written HEADERS frames and the loop has
\* written a SETTINGS acknowledgement between them.
C14_Witness ==
    \E i, j, k \in 1..Len(wire) :
        /\ i < j /\ j < k
        /\ wire[i].type = "HEADERS" /\ wire[k].type = "HEADERS"
        /\ wire[i].stream_id # wire[k].stream_id
        /\ wire[j] = SettingsAckFrame

\* C15: the dispatch of a WINDOW_UPDATE frame with stream id 0 changes nothing
\* of the connection or of its streams and writes nothing; the dispatch of a
\* frame with stream id 0 of a type other than SETTINGS and WINDOW_UPDATE closes
\* the transport, ends the loop with an error that is the outcome of start,
\* calls no delegate and writes nothing; and once a loop has ended that way no
\* frame is dispatched.
C15_StreamZeroFrames ==
    [][/\ (last'.op = "recv" /\ last'.sid = 0 /\ last'.arg.type = "WINDOW_UPDATE")
          => /\ UNCHANGED <<is_client, closed, wire, streams, next_stream_id,
                            initial_settings_written, hpack_encoder, loops>>
             /\ ~closed'
             /\ last'.err = "none" /\ last'.calls = <<>> /\ last'.nw = 0
       /\ (/\ last'.op = "recv" /\ last'.sid = 0
           /\ last'.arg.type \notin {"SETTINGS", "WINDOW_UPDATE"})
          => /\ closed'
             /\ \E i \in 1..MaxStarts :
                   /\ loops[i] = "reading"
                   /\ loops'[i] = "Exception:invalid frame type for stream 0"
             /\ \A i \in 1..MaxStarts : loops'[i] # "reading"
             /\ UNCHANGED <<wire, streams>>
             /\ last'.calls = <<>>
       /\ (\E i \in 1..MaxStarts :
              loops[i] = "Exception:invalid frame type for stream 0")
          => last'.op # "recv"
      ]_vars

\* C15 witness: a PING frame with stream id 0 has ended the loop of a
\* connection that holds a stream.
C15_Witness ==
    /\ last.op = "recv" /\ last.sid = 0 /\ last.arg.type = "PING"
    /\ last.err = "Exception:invalid frame type for stream 0"
    /\ closed
    /\ DOMAIN streams # {}

\* C16: when a pending read of a loop (the preface read or a frame read) fails
\* because the transport is closed, the loop ends with no error as the outcome
\* of start, and the step writes nothing, leaves the streams and the transport
\* as they are and calls no delegate; a loop that has ended stays ended, and
\* every frame dispatched is dispatched by a loop that was reading an open
\* transport.
C16_ClosedEndsQuietly ==
    [][/\ last'.op = "read_closed"
          => /\ closed
             /\ \E i \in 1..MaxStarts :
                   /\ Pending(i)
                   /\ loops' = [loops EXCEPT ![i] = "returned"]
             /\ last'.err = "none" /\ last'.calls = <<>> /\ last'.nw = 0
             /\ UNCHANGED <<closed, wire, streams, initial_settings_written,
                            hpack_encoder, next_stream_id>>
       /\ \A i \in 1..MaxStarts :
             loops[i] = "returned" => loops'[i] = "returned"
       /\ last'.op = "recv"
          => /\ ~closed
             /\ \E i \in 1..MaxStarts : loops[i] = "reading"
       /\ (closed /\ \A i \in 1..MaxStarts : ~Pending(i)) => wire' = wire
      ]_vars

\* C16 witness: the transport was closed while a loop that had dispatched
\* frames to a stream was reading, and the loop has returned.
C16_Witness ==
    /\ last.op = "read_closed"
    /\ frames_read
    /\ DOMAIN streams # {}
    /\ \E i \in 1..MaxStarts : loops[i] = "returned"

\* C17 (as claimed): every id of the stream table has had one Stream object
\* registered under it; no registration replaces a registered stream.
C17_RegisteredOnce ==
    \A s \in DOMAIN streams : s \in DOMAIN registered /\ registered[s] = 1

\* C18 (as claimed): a call of write_headers, write or finish that fails writes
\* exactly one RST_STREAM frame for its stream; a write_headers that fails with
\* the overrun error of its first chunk writes the HEADERS frame and then one
\* RST_STREAM frame.
C18_OneResetPerFailure ==
    (last.op \in {"write_headers", "write", "finish"} /\ last.err # "none") =>
        /\ Cardinality(Positions(Written, "RST_STREAM", last.sid)) = 1
        /\ (last.op = "write_headers" /\ last.err = "HTTPOutputError:more") =>
              /\ Len(Written) = 2
              /\ Written[1].type = "HEADERS"
              /\ Written[2] = RstStreamFrame(last.sid)

\* C19 (as claimed): a write that fails with the overrun error leaves the
\* stream's remaining-content-length counter as it was before the call.
C19_FailedWriteKeepsCounter ==
    (last.op = "write" /\ last.err = "HTTPOutputError:more") =>
        streams[last.sid].expected_content_remaining = last.pre

\* C20 (as claimed): no HEADERS or DATA frame follows, on the transport, a
\* frame with END_STREAM written for the same stream id; so at most one frame
\* with END_STREAM is written per stream.
C20_NothingAfterEndStream ==
    \A k \in 1..Len(wire) :
        (wire[k].stream_id # 0 /\ END_STREAM \in wire[k].flags) =>
            \A j \in (k + 1)..Len(wire) :
                ~(/\ wire[j].stream_id = wire[k].stream_id
                  /\ wire[j].type \in {"HEADERS", "DATA"})
====
